---- MODULE Spec2Model ----
(***************************************************************************)
(* The member-record store of the gym management system: documents kept in *)
(* a date-partitioned folder tree (services/member_service.py), the record *)
(* codec (services/pdf_service.py), the search worker's access overlay     *)
(* (workers/search_worker.py) and the dashboard handlers that drive the    *)
(* status workflow (ui/dashboards/*.py).                                   *)
(*                                                                         *)
(* Text is a sequence of one-character strings, so that lower(), upper(),  *)
(* strip() and the "in" substring test are computed and not assumed.       *)
(* A document is the record of the lines create_member_pdf draws; the      *)
(* modification time of a file is the value of a logical clock that every  *)
(* document write advances.                                                *)
(*                                                                         *)
(* Beside the store the module holds the attendance table read by          *)
(* ai_module/analytics.py, the thread pool that runs SaveWorkers, and the  *)
(* arguments and results of the codec and of core/utils.add_months, each   *)
(* driven by a specification of its own (CodecSpec, CalendarSpec,          *)
(* AttendanceSpec, PoolSpec); under Spec they stay as Init leaves them.    *)
(* FormSpec runs the admin form's save through the pool beside Ban, and    *)
(* LogSpec lets appends to a monthly log fail and registers numeric ids.   *)
(***************************************************************************)
EXTENDS Integers, Sequences, FiniteSets, TLC

VARIABLES
    files,       \* the documents under config.BASE_FOLDER
    dirs,        \* the folders under it
    log,         \* the monthly_members.txt files
    clock,       \* logical time of the last document write
    faults,      \* appends to a monthly log that are still to fail
    member,      \* the Member handed to the codec
    calc,        \* arguments and result of add_months
    attendance,  \* rows of the attendance table: <<member_id, check_in_time>>
    now,         \* the clock: its UTC reading and the local offset in hours
    pool         \* the thread pool: its thread count and its SaveWorkers

storeVars == <<files, dirs, log, clock, faults>>

otherVars == <<member, calc, attendance, now, pool>>

vars == <<files, dirs, log, clock, faults, member, calc, attendance, now, pool>>

-----------------------------------------------------------------------------
(* Bounds of the model.                                                    *)

\* Number of document writes in a run (each write advances the clock).
MaxClock == 3

\* Number of documents an outside cause may leave unreadable.
MaxCorrupt == 1

\* Largest number of months handed to add_months.
MaxMonths == 60

-----------------------------------------------------------------------------
(* Text: str.lower, str.upper, str.strip, substring test, number formats.  *)

LowerAlphabet ==
    <<"a","b","c","d","e","f","g","h","i","j","k","l","m",
      "n","o","p","q","r","s","t","u","v","w","x","y","z">>

UpperAlphabet ==
    <<"A","B","C","D","E","F","G","H","I","J","K","L","M",
      "N","O","P","Q","R","S","T","U","V","W","X","Y","Z">>

\* The letter tables, each computed once.
LowerOf ==
    [c \in {UpperAlphabet[i] : i \in 1..26} |->
        LowerAlphabet[CHOOSE i \in 1..26 : UpperAlphabet[i] = c]]

UpperOf ==
    [c \in {LowerAlphabet[i] : i \in 1..26} |->
        UpperAlphabet[CHOOSE i \in 1..26 : LowerAlphabet[i] = c]]

LowerChar(c) == IF c \in DOMAIN LowerOf THEN LowerOf[c] ELSE c

UpperChar(c) == IF c \in DOMAIN UpperOf THEN UpperOf[c] ELSE c

Lower(s) == [i \in 1..Len(s) |-> LowerChar(s[i])]

Upper(s) == [i \in 1..Len(s) |-> UpperChar(s[i])]

RECURSIVE LStrip(_)
LStrip(s) == IF s # <<>> /\ Head(s) = " " THEN LStrip(Tail(s)) ELSE s

RECURSIVE RStrip(_)
RStrip(s) ==
    IF s # <<>> /\ s[Len(s)] = " " THEN RStrip(SubSeq(s, 1, Len(s) - 1)) ELSE s

Strip(s) == RStrip(LStrip(s))

\* Python's  sub in s
Contains(sub, s) ==
    \E i \in 0..(Len(s) - Len(sub)) : SubSeq(s, i + 1, i + Len(sub)) = sub

DigitChar(d) ==
    CASE d = 0 -> "0" [] d = 1 -> "1" [] d = 2 -> "2" [] d = 3 -> "3"
      [] d = 4 -> "4" [] d = 5 -> "5" [] d = 6 -> "6" [] d = 7 -> "7"
      [] d = 8 -> "8" [] d = 9 -> "9"

\* str(n) for n >= 0
RECURSIVE Digits(_)
Digits(n) ==
    IF n < 10 THEN <<DigitChar(n)>>
    ELSE Append(Digits(n \div 10), DigitChar(n % 10))

\* f"{n:02d}"
TwoDigits(n) == IF n < 10 THEN <<"0">> \o Digits(n) ELSE Digits(n)

-----------------------------------------------------------------------------
(* Calendar: core/utils.py                                                 *)

month_name(m) ==
    CASE m = 1 -> <<"J","a","n","u","a","r","y">>
      [] m = 2 -> <<"F","e","b","r","u","a","r","y">>
      [] m = 3 -> <<"M","a","r","c","h">>
      [] m = 4 -> <<"A","p","r","i","l">>
      [] m = 5 -> <<"M","a","y">>
      [] m = 6 -> <<"J","u","n","e">>
      [] m = 7 -> <<"J","u","l","y">>
      [] m = 8 -> <<"A","u","g","u","s","t">>
      [] m = 9 -> <<"S","e","p","t","e","m","b","e","r">>
      [] m = 10 -> <<"O","c","t","o","b","e","r">>
      [] m = 11 -> <<"N","o","v","e","m","b","e","r">>
      [] m = 12 -> <<"D","e","c","e","m","b","e","r">>

IsLeap(y) == (y % 4 = 0 /\ y % 100 # 0) \/ y % 400 = 0

\* calendar.monthrange(year, month)[1]
DaysInMonth(y, m) ==
    IF m = 2 THEN (IF IsLeap(y) THEN 29 ELSE 28)
    ELSE IF m \in {4, 6, 9, 11} THEN 30 ELSE 31

\* Mutant: the day is not clamped to the length of the new month.
add_months_NoClamp(start_date, months) ==
    LET month0 == start_date.month - 1 + months
        year   == start_date.year + (month0 \div 12)
        month  == (month0 % 12) + 1
    IN  [year |-> year, month |-> month, day |-> start_date.day]

\* core.utils.add_months
add_months(start_date, months) ==
    LET month0 == start_date.month - 1 + months
        year   == start_date.year + (month0 \div 12)
        month  == (month0 % 12) + 1
        dim    == DaysInMonth(year, month)
        day    == IF start_date.day < dim THEN start_date.day ELSE dim
    IN  [year |-> year, month |-> month, day |-> day]

\* str(datetime.date): the ISO text of a date
DateStr(d) ==
    Digits(d.year) \o <<"-">> \o TwoDigits(d.month) \o <<"-">> \o TwoDigits(d.day)

-----------------------------------------------------------------------------
(* Values of the program.                                                  *)

\* Python's None (get_member_by_id and parse_member_from_pdf return it).
None == [none |-> TRUE]

\* QtCore.QThreadPool() with nothing started, on one thread.
IdlePool == [maxThreadCount |-> 1, workers |-> <<>>]

Pending == <<"P","e","n","d","i","n","g">>
Active  == <<"A","c","t","i","v","e">>
BANNED  == <<"B","A","N","N","E","D">>
Expired == <<"E","x","p","i","r","e","d">>

Male   == <<"M","a","l","e">>
Female == <<"F","e","m","a","l","e">>

Bronze == <<"B","r","o","n","z","e">>
Gold   == <<"G","o","l","d">>

\* dict.get(key, default)
Get(d, key, default) == IF key \in DOMAIN d THEN d[key] ELSE default

-----------------------------------------------------------------------------
(* Record codec: services/pdf_service.py                                   *)
(* A document's text is the sequence of the lines drawn, each line a       *)
(* label and the text that follows ": ".                                   *)

CharDigit(c) ==
    CASE c = "0" -> 0 [] c = "1" -> 1 [] c = "2" -> 2 [] c = "3" -> 3
      [] c = "4" -> 4 [] c = "5" -> 5 [] c = "6" -> 6 [] c = "7" -> 7
      [] c = "8" -> 8 [] c = "9" -> 9

IsNumber(s) ==
    s # <<>> /\ \A i \in 1..Len(s) : s[i] \in {"0","1","2","3","4","5","6","7","8","9"}

\* int(s) for a text of digits
RECURSIVE ParseInt(_)
ParseInt(s) ==
    IF Len(s) = 1 THEN CharDigit(s[1])
    ELSE 10 * ParseInt(SubSeq(s, 1, Len(s) - 1)) + CharDigit(s[Len(s)])

\* s.split(sep) for a one-character separator
RECURSIVE SplitOn(_, _)
SplitOn(s, sep) ==
    IF \A i \in 1..Len(s) : s[i] # sep THEN <<s>>
    ELSE LET k == CHOOSE i \in 1..Len(s) :
                     s[i] = sep /\ \A j \in 1..(i - 1) : s[j] # sep
         IN  <<SubSeq(s, 1, k - 1)>> \o SplitOn(SubSeq(s, k + 1, Len(s)), sep)

\* str.title() of the field names drawn as labels
Title(s) == IF s = <<>> THEN s ELSE <<UpperChar(s[1])>> \o Tail(s)

K_id     == <<"i","d">>
K_name   == <<"n","a","m","e">>
K_phone  == <<"p","h","o","n","e">>
K_blood  == <<"b","l","o","o","d">>
K_gender == <<"g","e","n","d","e","r">>
K_cnic   == <<"c","n","i","c">>

L_JoinDate   == <<"J","o","i","n"," ","D","a","t","e">>
L_Membership == <<"M","e","m","b","e","r","s","h","i","p">>
L_Package    == <<"P","a","c","k","a","g","e">>
L_EndDate    == <<"E","n","d"," ","D","a","t","e">>
L_Status     == <<"S","t","a","t","u","s">>

Line(label, text) == [label |-> label, text |-> text]

\* Mutant: the join date is drawn month first.
create_member_pdf_MonthFirst(m) ==
    << Line(Title(K_id), m.id),
       Line(Title(K_name), m.name),
       Line(Title(K_phone), m.phone),
       Line(Title(K_blood), m.blood),
       Line(Title(K_gender), m.gender),
       Line(Title(K_cnic), m.cnic),
       Line(L_JoinDate,
            TwoDigits(m.month) \o <<"/">> \o TwoDigits(m.day) \o <<"/">> \o Digits(m.year)),
       Line(L_Membership,
            Digits(m.membership_months) \o <<" ","m","o","n","t","h","s">>),
       Line(L_Package, m.package),
       Line(L_EndDate, m.end_date),
       Line(L_Status, m.status) >>

\* The lines create_member_pdf draws for a member (header and footer lines
\* start with no field label and are left out).
create_member_pdf(m) ==
    << Line(Title(K_id), m.id),
       Line(Title(K_name), m.name),
       Line(Title(K_phone), m.phone),
       Line(Title(K_blood), m.blood),
       Line(Title(K_gender), m.gender),
       Line(Title(K_cnic), m.cnic),
       Line(L_JoinDate,
            TwoDigits(m.day) \o <<"/">> \o TwoDigits(m.month) \o <<"/">> \o Digits(m.year)),
       Line(L_Membership,
            Digits(m.membership_months) \o <<" ","m","o","n","t","h","s">>),
       Line(L_Package, m.package),
       Line(L_EndDate, m.end_date),
       Line(L_Status, m.status) >>

\* One line of parse_member_from_pdf's loop, applied to the dictionary d.
ParseLine(d, ln) ==
    LET val == Strip(ln.text)
        low == Lower(ln.label)
    IN  IF low = K_id THEN [d EXCEPT !.id = val]
        ELSE IF low = K_name THEN [d EXCEPT !.name = val]
        ELSE IF low = K_phone THEN [d EXCEPT !.phone = val]
        ELSE IF low = K_blood THEN [d EXCEPT !.blood = val]
        ELSE IF low = K_gender THEN [d EXCEPT !.gender = val]
        ELSE IF low = K_cnic THEN [d EXCEPT !.cnic = val]
        ELSE IF ln.label = L_Package THEN [d EXCEPT !.package = val]
        ELSE IF ln.label = L_JoinDate THEN
            LET parts == SplitOn(val, "/")
            IN  IF Len(parts) >= 3 /\ \A i \in 1..3 : IsNumber(parts[i])
                THEN [d EXCEPT !.day = ParseInt(parts[1]),
                               !.month = ParseInt(parts[2]),
                               !.year = ParseInt(parts[3])]
                ELSE d
        ELSE IF ln.label = L_Membership THEN
            LET words == SplitOn(val, " ")
            IN  IF IsNumber(words[1])
                THEN ("membership_months" :> ParseInt(words[1])) @@ d
                ELSE d
        ELSE IF ln.label = L_EndDate THEN ("end_date" :> val) @@ d
        ELSE IF ln.label = L_Status THEN ("status" :> val) @@ d
        ELSE d

RECURSIVE ParseLines(_, _)
ParseLines(d, lines) ==
    IF lines = <<>> THEN d ELSE ParseLines(ParseLine(d, Head(lines)), Tail(lines))

\* parse_member_from_pdf: None for a file that cannot be read; the id falls
\* back to the file's stem when no Id line gave one.
parse_member_from_pdf(f) ==
    IF ~f.readable THEN None
    ELSE LET d0 == [id |-> <<>>, name |-> <<>>, phone |-> <<>>, blood |-> <<>>,
                    gender |-> <<>>, cnic |-> <<>>, package |-> <<>>,
                    day |-> None, month |-> None, year |-> None]
             d  == ParseLines(d0, f.lines)
         IN  IF d.id = <<>> THEN [d EXCEPT !.id = f.path.id] ELSE d

-----------------------------------------------------------------------------
(* Folder tree: Gym Data / year / month name / day / id [/ ReAdmission_n]  *)
(* A path names a folder; a document's file is <id>.pdf in that folder, so *)
(* its stem is the folder's id.  sub = 0 is the id folder itself.          *)

Path(year, month, day, id, sub) ==
    [year |-> Digits(year), month |-> month_name(month), day |-> TwoDigits(day),
     id |-> id, sub |-> sub]

\* f"ReAdmission_{count}"
ReAdmissionName(n) ==
    <<"R","e","A","d","m","i","s","s","i","o","n","_">> \o Digits(n)

\* pdf_path.stem
Stem(f) == f.path.id

\* p.stat().st_mtime
MTime(f) == f.mtime

\* max(found, key=lambda p: p.stat().st_mtime)
Newest(fs) == CHOOSE f \in fs : \A g \in fs : MTime(g) <= MTime(f)

\* The names of the folders on the way from the root to a folder.
FolderNames(p) ==
    {p.year, p.month, p.day, p.id} \cup
    (IF p.sub > 0 THEN {ReAdmissionName(p.sub)} ELSE {})

-----------------------------------------------------------------------------
(* Record store: services/member_service.py                                *)

\* base of save_new_member
BaseOf(m) == Path(m.year, m.month, m.day, m.id, 0)

\* Mutant: the subfolder number is taken from the documents found in the id
\* folder instead of from its subfolders.
SavePath_CountsPdfs(m) ==
    LET base     == BaseOf(m)
        existing == {f \in files : f.path = base}
    IN  IF existing # {} THEN [base EXCEPT !.sub = Cardinality(existing)] ELSE base

\* Mutant: no re-admission branch, every save targets the id folder.
SavePath_NoReAdmission(m) == BaseOf(m)

\* Target folder of save_new_member: the id folder, or, when it already
\* holds a document, ReAdmission_{number of its subfolders + 1}.
SavePath(m) ==
    LET base     == BaseOf(m)
        existing == {f \in files : f.path = base}
        count    == Cardinality({d \in dirs :
                        [d EXCEPT !.sub = 0] = base /\ d.sub > 0}) + 1
    IN  IF existing # {} THEN [base EXCEPT !.sub = count] ELSE base

\* The monthly log line of a save.
LogEntry(m) ==
    [id |-> m.id, name |-> m.name, day |-> TwoDigits(m.day),
     month |-> TwoDigits(m.month), year |-> Digits(m.year), status |-> m.status]

LogKey(m) == <<Digits(m.year), month_name(m.month)>>

\* get_monthly_list: the lines of one month's log, or none when the file
\* does not exist.
get_monthly_list(year, month) ==
    LET k == <<Digits(year), month_name(month)>>
    IN  IF k \in DOMAIN log THEN log[k] ELSE <<>>

\* Mutant: the monthly log is appended to before the document is written, and
\* a failed append ends the save.
save_new_member_LogFirst(m, logOk) ==
    LET target == SavePath(m)
        doc    == [path |-> target, lines |-> create_member_pdf(m),
                   mtime |-> clock + 1, readable |-> TRUE]
        k      == LogKey(m)
    IN  IF ~logOk
        THEN /\ faults' = faults - 1
             /\ UNCHANGED <<files, dirs, log, clock>>
             /\ UNCHANGED otherVars
        ELSE /\ files' = {f \in files : f.path # target} \cup {doc}
             /\ dirs' = dirs \cup {BaseOf(m), target}
             /\ log' = IF k \in DOMAIN log
                       THEN [log EXCEPT ![k] = Append(@, LogEntry(m))]
                       ELSE (k :> <<LogEntry(m)>>) @@ log
             /\ clock' = clock + 1
             /\ faults' = faults
             /\ UNCHANGED otherVars

\* save_new_member: folders made, document written (an existing file at the
\* target is replaced), monthly log line appended unless the append fails.
save_new_member(m, logOk) ==
    LET target == SavePath(m)
        doc    == [path |-> target, lines |-> create_member_pdf(m),
                   mtime |-> clock + 1, readable |-> TRUE]
        k      == LogKey(m)
    IN  /\ files' = {f \in files : f.path # target} \cup {doc}
        /\ dirs' = dirs \cup {BaseOf(m), target}
        /\ log' = IF ~logOk THEN log
                  ELSE IF k \in DOMAIN log
                       THEN [log EXCEPT ![k] = Append(@, LogEntry(m))]
                       ELSE (k :> <<LogEntry(m)>>) @@ log
        /\ clock' = clock + 1
        /\ faults' = IF logOk THEN faults ELSE faults - 1
        /\ UNCHANGED otherVars

\* save_new_member with either outcome of the append to the monthly log,
\* the failing one while appends are still to fail.
Save(m) ==
    \E logOk \in (IF faults > 0 THEN BOOLEAN ELSE {TRUE}) : save_new_member(m, logOk)

\* Mutant: the stem is compared with the id as stored, letter case kept.
LatestIn_CaseSensitive(fs, member_id) ==
    LET found_pdfs == {f \in fs : Stem(f) = Strip(member_id)}
    IN  IF found_pdfs = {} THEN None
        ELSE parse_member_from_pdf(Newest(found_pdfs))

\* The body of get_member_by_id over the documents fs under the root: the
\* decode of the newest document whose stem equals the trimmed id, letter
\* case ignored.
LatestIn(fs, member_id) ==
    LET found_pdfs == {f \in fs : Lower(Stem(f)) = Strip(Lower(member_id))}
    IN  IF found_pdfs = {} THEN None
        ELSE parse_member_from_pdf(Newest(found_pdfs))

\* get_member_by_id reads the documents stored now.
get_member_by_id(member_id) == LatestIn(files, member_id)

\* Mutant: the package is not carried over from the record read.
StatusMember_DefaultPackage(data, new_status) ==
    [id |-> data.id, name |-> data.name,
     phone |-> Get(data, "phone", None), blood |-> Get(data, "blood", None),
     gender |-> Get(data, "gender", None), cnic |-> Get(data, "cnic", None),
     day |-> Get(data, "day", 1), month |-> Get(data, "month", 1),
     year |-> Get(data, "year", 2000),
     membership_months |-> Get(data, "membership_months", 1),
     package |-> Bronze,
     end_date |-> Get(data, "end_date", None),
     status |-> new_status]

\* Member(...) of update_member_status: the latest record with a new status.
StatusMember(data, new_status) ==
    [id |-> data.id, name |-> data.name,
     phone |-> Get(data, "phone", None), blood |-> Get(data, "blood", None),
     gender |-> Get(data, "gender", None), cnic |-> Get(data, "cnic", None),
     day |-> Get(data, "day", 1), month |-> Get(data, "month", 1),
     year |-> Get(data, "year", 2000),
     membership_months |-> Get(data, "membership_months", 1),
     package |-> Get(data, "package", None),
     end_date |-> Get(data, "end_date", None),
     status |-> new_status]

\* Mutant: the renewal keeps the membership months of the record read.
RenewMember_KeepsMonths(data, new_start_date, new_end_date, months_added) ==
    [id |-> data.id, name |-> data.name,
     phone |-> Get(data, "phone", <<>>), blood |-> Get(data, "blood", <<>>),
     gender |-> Get(data, "gender", <<>>), cnic |-> Get(data, "cnic", <<>>),
     day |-> new_start_date.day, month |-> new_start_date.month,
     year |-> new_start_date.year,
     membership_months |-> Get(data, "membership_months", 1),
     package |-> Get(data, "package", Bronze),
     end_date |-> DateStr(new_end_date),
     status |-> Active]

\* Member(...) of renew_membership.
RenewMember(data, new_start_date, new_end_date, months_added) ==
    [id |-> data.id, name |-> data.name,
     phone |-> Get(data, "phone", <<>>), blood |-> Get(data, "blood", <<>>),
     gender |-> Get(data, "gender", <<>>), cnic |-> Get(data, "cnic", <<>>),
     day |-> new_start_date.day, month |-> new_start_date.month,
     year |-> new_start_date.year,
     membership_months |-> months_added,
     package |-> Get(data, "package", Bronze),
     end_date |-> DateStr(new_end_date),
     status |-> Active]


\* update_member_status: absent id raises "Member not found" and writes
\* nothing; otherwise the rebuilt member is saved.
update_member_status(member_id, new_status) ==
    LET data == get_member_by_id(member_id)
    IN  IF data = None
        THEN UNCHANGED vars
        ELSE Save(StatusMember(data, new_status))

\* renew_membership: absent id raises; otherwise a new Active record with
\* the caller's dates is saved.
renew_membership(member_id, new_start_date, new_end_date, months_added) ==
    LET current_data == get_member_by_id(member_id)
    IN  IF current_data = None
        THEN UNCHANGED vars
        ELSE Save(RenewMember(current_data, new_start_date, new_end_date,
                              months_added))

\* update_member_status raises ValueError("Member not found").
update_member_status_raises(member_id) == get_member_by_id(member_id) = None

\* renew_membership raises ValueError("Member ... not found.").
renew_membership_raises(member_id) == get_member_by_id(member_id) = None

\* The folders delete_member removes: every folder named exactly member_id,
\* with all it holds.
Doomed(p, member_id) == member_id \in FolderNames(p)

\* delete_member: the doomed folders go with their documents, and with the
\* monthly logs of a year or month folder among them.
delete_member(member_id) ==
    /\ files' = {f \in files : ~Doomed(f.path, member_id)}
    /\ dirs' = {d \in dirs : ~Doomed(d, member_id)}
    /\ LET kept == {k \in DOMAIN log : member_id \notin {k[1], k[2]}}
       IN  log' = IF kept = DOMAIN log THEN log
                  ELSE IF kept = {} THEN <<>>
                  ELSE [k \in kept |-> log[k]]
    /\ UNCHANGED <<clock, faults>>
    /\ UNCHANGED otherVars

\* Mutant: a document that cannot be read ends the scan with nothing.
PendingIn_Aborts(fs) ==
    LET Row(f) == LET data == parse_member_from_pdf(f)
                  IN  IF data # None /\ Lower(Get(data, "status", <<>>)) =
                                            <<"p","e","n","d","i","n","g">>
                      THEN {[id |-> Get(data, "id", <<>>),
                             name |-> Get(data, "name", <<>>),
                             gender |-> Get(data, "gender", <<>>),
                             path |-> f.path]}
                      ELSE {}
    IN  IF \E f \in fs : ~f.readable THEN {} ELSE UNION {Row(f) : f \in fs}

\* The body of get_pending_members over the documents fs: one summary per
\* readable document whose status is "pending", letter case ignored (no
\* grouping by id).
PendingIn(fs) ==
    LET Row(f) == LET data == parse_member_from_pdf(f)
                  IN  IF data # None /\ Lower(Get(data, "status", <<>>)) =
                                            <<"p","e","n","d","i","n","g">>
                      THEN {[id |-> Get(data, "id", <<>>),
                             name |-> Get(data, "name", <<>>),
                             gender |-> Get(data, "gender", <<>>),
                             path |-> f.path]}
                      ELSE {}
    IN  UNION {Row(f) : f \in fs}

get_pending_members == PendingIn(files)

-----------------------------------------------------------------------------
(* Queries: search, status listing, and the search worker's overlay.       *)

\* query.lower().strip()
NormalQuery(query) == Strip(Lower(query))

\* Quick search: the documents whose lower-cased stem contains the query.
FilenamePass(query) ==
    {f \in files : Contains(NormalQuery(query), Lower(Stem(f)))}

\* Deep search: the readable documents whose decoded name contains it.
ContentPass(query) ==
    {f \in files :
        LET parsed == parse_member_from_pdf(f)
        IN  /\ parsed # None
            /\ Contains(NormalQuery(query), Lower(Get(parsed, "name", <<>>)))}

\* Mutant: the deep search is run as well when the quick search found
\* documents.
SearchMatches_BothPasses(query) == FilenamePass(query) \cup ContentPass(query)

\* The candidate documents of search_members.
SearchMatches(query) ==
    LET matches == FilenamePass(query)
    IN  IF matches # {} THEN matches ELSE ContentPass(query)

\* Number of documents search_members decodes to build the match list.
SearchDecodes(query) ==
    IF FilenamePass(query) # {} THEN 0 ELSE Cardinality(files)

\* Mutant: the best result is taken from the candidate written first.
BestOf_Oldest(matches) == CHOOSE f \in matches : \A g \in matches : MTime(f) <= MTime(g)

\* max(matches, key=mtime)
BestOf(matches) == Newest(matches)

\* Mutant: a document whose stem equals the query is preferred to the other
\* candidates when the best result is chosen.
search_members_ExactFirst(query) ==
    LET matches == SearchMatches(query)
        exact == {f \in matches : Lower(Stem(f)) = NormalQuery(query)}
    IN  IF matches = {} THEN [matches |-> {}]
        ELSE [matches |-> {f.path : f \in matches},
              parsed |-> parse_member_from_pdf(
                             BestOf(IF exact # {} THEN exact ELSE matches))]

\* search_members: {"matches": []} when nothing matches; otherwise the
\* locations of all candidates and the decode of the newest one.
search_members(query) ==
    LET matches == SearchMatches(query)
    IN  IF matches = {} THEN [matches |-> {}]
        ELSE [matches |-> {f.path : f \in matches},
              parsed |-> parse_member_from_pdf(BestOf(matches))]

\* Mutant: the worker lets the result through when any candidate has the
\* caller's gender.
SearchWorker_run_AnyCandidate(query, is_admin, user_gender) ==
    LET result == search_members(query)
        own == {f \in SearchMatches(query) :
                   /\ f.readable
                   /\ Lower(Strip(Get(parse_member_from_pdf(f), "gender", <<>>)))
                          = Lower(Strip(user_gender))}
    IN  IF ~is_admin /\ Get(result, "parsed", None) # None /\ own = {}
        THEN [matches |-> {}, access_denied |-> TRUE]
        ELSE result

\* Mutant: the worker removes from the match list the candidates that are not
\* of the caller's gender.
SearchWorker_run_FiltersCandidates(query, is_admin, user_gender) ==
    LET result == search_members(query)
        parsed == Get(result, "parsed", None)
        member_gender == Lower(Strip(Get(parsed, "gender", <<>>)))
        my_gender == IF user_gender # None /\ user_gender # <<>>
                     THEN Lower(Strip(user_gender)) ELSE <<>>
        own == {f \in SearchMatches(query) :
                   /\ f.readable
                   /\ Lower(Strip(Get(parse_member_from_pdf(f), "gender", <<>>)))
                          = my_gender}
    IN  IF ~is_admin /\ parsed # None /\ my_gender # <<>> /\ member_gender # my_gender
        THEN [matches |-> {}, access_denied |-> TRUE]
        ELSE IF is_admin \/ my_gender = <<>> \/ parsed = None THEN result
        ELSE [matches |-> {f.path : f \in own}, parsed |-> parsed]

\* SearchWorker.run: what the worker emits on its finished signal.
SearchWorker_run(query, is_admin, user_gender) ==
    LET result == search_members(query)
        parsed == Get(result, "parsed", None)
        member_gender == Lower(Strip(Get(parsed, "gender", <<>>)))
        my_gender == IF user_gender # None /\ user_gender # <<>>
                     THEN Lower(Strip(user_gender)) ELSE <<>>
    IN  IF ~is_admin /\ parsed # None /\ my_gender # <<>> /\ member_gender # my_gender
        THEN [matches |-> {}, access_denied |-> TRUE]
        ELSE result

\* The documents get_members_by_status keeps in member_dict when it scans
\* fs: per decoded id, the newest of the documents whose status equals the
\* one asked for.
StatusKeptIn(fs, status) ==
    LET hit == {f \in fs :
                   LET parsed == parse_member_from_pdf(f)
                   IN  /\ parsed # None
                       /\ Lower(Get(parsed, "status", <<>>)) = Lower(status)}
    IN  {f \in hit : \A g \in hit :
            Get(parse_member_from_pdf(g), "id", <<>>) =
                Get(parse_member_from_pdf(f), "id", <<>>)
                => MTime(g) <= MTime(f)}

\* sorted(..., key=mtime, reverse=True)
RECURSIVE NewestFirst(_)
NewestFirst(fs) ==
    IF fs = {} THEN <<>>
    ELSE <<Newest(fs)>> \o NewestFirst(fs \ {Newest(fs)})

StatusKept(status) == StatusKeptIn(files, status)

\* The body of get_members_by_status over the documents fs: the listed
\* lines, newest first; no line stands for the "No members found" text.
StatusListIn(fs, status) ==
    LET sorted_members == NewestFirst(StatusKeptIn(fs, status))
    IN  [i \in 1..Len(sorted_members) |->
            [id |-> parse_member_from_pdf(sorted_members[i]).id,
             name |-> parse_member_from_pdf(sorted_members[i]).name,
             status |-> parse_member_from_pdf(sorted_members[i]).status]]

get_members_by_status(status) == StatusListIn(files, status)

-----------------------------------------------------------------------------
(* Inputs of the dashboards.                                               *)

D1 == [year |-> 2024, month |-> 1, day |-> 31]
D2 == [year |-> 2024, month |-> 3, day |-> 15]

\* A filled registration form: the texts of the id and name fields and the
\* choices of the package and duration boxes; gender is the choice of the
\* admin form's gender box, or the gender of the staff user signed in.
Forms ==
    { [id |-> <<"a","1">>, name |-> <<"B","o"," ">>, gender |-> Male,
       package |-> Bronze, months |-> 1],
      [id |-> <<"A","1","b">>, name |-> <<"A","b","o">>, gender |-> Female,
       package |-> Gold, months |-> 3] }

\* Gender of the signed-in staff user (UserDashboard.user_gender).
UserGenders == {Male, Female}

FormDates == {D1}
RenewDates == {D1, D2}
RenewMonths == {2}

\* Ids typed into the admin form before Ban or Renew, and ids handed to
\* delete_member.
OpIds == {<<"a","1">>, <<"A","1","b">>}

\* Registration forms whose ids are numbers, as member numbers are: one that
\* is also the name of a day folder, one that is the name of a year folder,
\* and one that contains the first.
NumberForms ==
    { [id |-> <<"3","1">>, name |-> <<"B","o">>, gender |-> Male,
       package |-> Bronze, months |-> 1],
      [id |-> <<"2","0","2","4">>, name |-> <<"A","b","o">>, gender |-> Female,
       package |-> Gold, months |-> 3],
      [id |-> <<"1","3","1">>, name |-> <<"C","y">>, gender |-> Male,
       package |-> Gold, months |-> 1] }

NumberIds == {form.id : form \in NumberForms}

\* Ids asked of get_member_by_id (check-in, renewal and form fields).
QueryIds == {<<"a","1">>, <<" ","A","1"," ">>, <<"A","1","B">>, <<"z","z">>}

\* Texts typed into a search box.
Queries == {<<" ","A","1">>, <<"B">>, <<"b","o">>}

\* Statuses asked of get_members_by_status: the two status pages of the admin
\* dashboard, and a lower-case one.
StatusQueries == {Active, Expired, <<"p","e","n","d","i","n","g">>}
DeleteIds == {<<"A","1">>, <<"a","1">>, <<"A","1","B">>}

Phone == <<"0","3">>
Blood == <<"O","+">>
Cnic  == <<"4","2">>

-----------------------------------------------------------------------------
(* Dashboard handlers.                                                     *)

\* The Member UserDashboard.do_save builds from the form: always Pending,
\* id upper-cased.
StaffMember(form, jd) ==
    LET clean_id == Upper(Strip(form.id))
        months_int == form.months
        ed == add_months(jd, months_int)
    IN  [id |-> clean_id, name |-> Strip(form.name), phone |-> Phone,
         blood |-> Blood, gender |-> form.gender, cnic |-> Cnic,
         day |-> jd.day, month |-> jd.month, year |-> jd.year,
         membership_months |-> months_int, package |-> form.package,
         end_date |-> DateStr(ed), status |-> Pending]

\* UserDashboard.do_save, the SaveWorker's write taken as part of the step.
do_save(form, jd) ==
    /\ clock < MaxClock
    /\ form.id # <<>> /\ form.name # <<>>
    /\ Save(StaffMember(form, jd))

\* Mutant: an admin form save keeps only a Pending status.
OnSaveStatus_KeepsPendingOnly(clean_id) ==
    LET exist == get_member_by_id(clean_id)
    IN  IF exist # None /\ Get(exist, "status", Active) = Pending
        THEN Pending ELSE Active

\* Mutant: an admin form save always writes Active.
OnSaveStatus_AlwaysActive(clean_id) == Active

\* Mutant: a form saved for an id without a record takes the status the
\* dashboards display for a record without one.
OnSaveStatus_ExpiredDefault(clean_id) ==
    LET exist == get_member_by_id(clean_id)
    IN  IF exist # None THEN Get(exist, "status", Expired) ELSE Expired

\* Status an admin form save writes: that of the existing latest record, or
\* Active.
OnSaveStatus(clean_id) ==
    LET exist == get_member_by_id(clean_id)
    IN  IF exist # None THEN Get(exist, "status", Active) ELSE Active

\* The Member AdminDashboard.on_save builds from the form: the id trimmed,
\* the status that of the latest record at the time of the call.
AdminMember(form, jd) ==
    LET clean_id == Strip(form.id)
        months_int == form.months
        ed == add_months(jd, months_int)
    IN  [id |-> clean_id, name |-> form.name, phone |-> Phone,
         blood |-> Blood, gender |-> form.gender, cnic |-> Cnic,
         day |-> jd.day, month |-> jd.month, year |-> jd.year,
         membership_months |-> months_int, package |-> form.package,
         end_date |-> DateStr(ed), status |-> OnSaveStatus(clean_id)]

\* AdminDashboard.on_save, the read on the interactive thread and the
\* SaveWorker's write taken as one step.
on_save(form, jd) ==
    /\ clock < MaxClock
    /\ form.id # <<>> /\ form.name # <<>>
    /\ Save(AdminMember(form, jd))

\* AdminDashboard.do_approve, for a row of the approvals table.
do_approve(mid) ==
    /\ clock < MaxClock
    /\ update_member_status(mid, Active)

\* AdminDashboard.do_reject, for a row of the approvals table.
do_reject(mid) == delete_member(mid)

\* Mutant: a ban of an id without a record registers the id as a banned
\* member.
do_ban_RegistersAbsent(mid) ==
    /\ clock < MaxClock
    /\ Strip(mid) # <<>>
    /\ IF get_member_by_id(Strip(mid)) = None
       THEN Save([AdminMember([id |-> mid, name |-> mid, gender |-> Male,
                               package |-> Bronze, months |-> 1], D1)
                     EXCEPT !.status = BANNED])
       ELSE update_member_status(Strip(mid), BANNED)

\* AdminDashboard.do_ban, for the id typed into the form.
do_ban(mid) ==
    /\ clock < MaxClock
    /\ Strip(mid) # <<>>
    /\ update_member_status(Strip(mid), BANNED)

\* Mutant: the end date is computed from the first start date offered, not
\* from the one chosen.
calculate_end_date_StaleStart(start_date, months) == add_months(D1, months)

\* RenewDialog.calculate_end_date
calculate_end_date(start_date, months) == add_months(start_date, months)

\* AdminDashboard.open_renew / UserDashboard.open_renew_dialog with the
\* dialog accepted.
open_renew(mid, start_date, months) ==
    /\ clock < MaxClock
    /\ Strip(mid) # <<>>
    /\ renew_membership(Strip(mid), start_date,
                        calculate_end_date(start_date, months), months)

\* A document becomes unreadable from outside the program (a damaged or
\* hand-edited file): PdfReader raises and the decode is None.
Corrupt(f) ==
    /\ f.readable
    /\ Cardinality({g \in files : ~g.readable}) < MaxCorrupt
    /\ files' = (files \ {f}) \cup {[f EXCEPT !.readable = FALSE]}
    /\ UNCHANGED <<dirs, log, clock, faults>>
    /\ UNCHANGED otherVars

-----------------------------------------------------------------------------
(* Attendance log and analytics: services/attendance_service.py,           *)
(* ai_module/analytics.py.  A row is <<member_id, check_in_time>>; a point *)
(* in time is a record of year, month, day, hour, minute, second.          *)

\* Largest number of rows of the attendance table.
MaxEvents == 4

\* date.toordinal(): days from 1 January of year 1, that day being 1.
RECURSIVE DaysBeforeMonth(_, _)
DaysBeforeMonth(y, m) ==
    IF m = 1 THEN 0 ELSE DaysBeforeMonth(y, m - 1) + DaysInMonth(y, m - 1)

toordinal(d) ==
    LET y == d.year - 1
    IN  y * 365 + (y \div 4) - (y \div 100) + (y \div 400)
        + DaysBeforeMonth(d.year, d.month) + d.day

\* A naive datetime as a day number and the seconds into that day.
Moment(dt) ==
    [days |-> toordinal(dt),
     seconds |-> dt.hour * 3600 + dt.minute * 60 + dt.second]

\* a > b for datetimes.
Later(a, b) ==
    \/ Moment(a).days > Moment(b).days
    \/ Moment(a).days = Moment(b).days /\ Moment(a).seconds > Moment(b).seconds

\* (a - b).days for moments: the whole days of the timedelta, rounded down.
DaysBetween(a, b) == (a.days - b.days) + ((a.seconds - b.seconds) \div 86400)

\* sqlite's CURRENT_TIMESTAMP for the clock reading dt: "YYYY-MM-DD HH:MM:SS"
\* in UTC.
CURRENT_TIMESTAMP(dt) ==
    DateStr(dt) \o <<" ">> \o TwoDigits(dt.hour) \o <<":">>
        \o TwoDigits(dt.minute) \o <<":">> \o TwoDigits(dt.second)

ShortNumber(s) == IsNumber(s) /\ Len(s) <= 2

\* datetime.strptime(text, "%Y-%m-%d %H:%M:%S"); None stands for ValueError.
strptime(text) ==
    LET halves == SplitOn(text, " ")
    IN  IF Len(halves) # 2 THEN None
        ELSE LET ds == SplitOn(halves[1], "-")
                 ts == SplitOn(halves[2], ":")
             IN  IF Len(ds) # 3 \/ Len(ts) # 3 THEN None
                 ELSE IF ~(/\ IsNumber(ds[1]) /\ Len(ds[1]) = 4
                           /\ ShortNumber(ds[2]) /\ ShortNumber(ds[3])
                           /\ \A i \in 1..3 : ShortNumber(ts[i])) THEN None
                 ELSE LET dt == [year |-> ParseInt(ds[1]), month |-> ParseInt(ds[2]),
                                 day |-> ParseInt(ds[3]), hour |-> ParseInt(ts[1]),
                                 minute |-> ParseInt(ts[2]), second |-> ParseInt(ts[3])]
                      IN  IF /\ dt.year >= 1
                             /\ dt.month \in 1..12
                             /\ dt.day >= 1
                             /\ dt.day <= DaysInMonth(dt.year, dt.month)
                             /\ dt.hour <= 23 /\ dt.minute <= 59 /\ dt.second <= 59
                          THEN dt ELSE None

\* get_all_attendance_data: every row, in table order.
get_all_attendance_data == attendance

\* The hours list of predict_peak_hours: the hour of every row whose
\* timestamp parses, in row order.
RECURSIVE HoursOf(_)
HoursOf(data) ==
    IF data = <<>> THEN <<>>
    ELSE LET dt == strptime(Head(data)[2])
         IN  IF dt = None THEN HoursOf(Tail(data))
             ELSE <<dt.hour>> \o HoursOf(Tail(data))

CountOf(hours, h) == Cardinality({i \in 1..Len(hours) : hours[i] = h})

FirstIndex(hours, h) == CHOOSE i \in 1..Len(hours) : hours[i] = h /\ \A j \in 1..(i - 1) : hours[j] # h

\* Mutant: the least frequent hour.
most_common_Least(hours) ==
    LET seen == {hours[i] : i \in 1..Len(hours)}
    IN  CHOOSE h \in seen : \A g \in seen : CountOf(hours, h) <= CountOf(hours, g)

\* Counter(hours).most_common(1)[0][0]: the hour counted most often, the one
\* seen first among equals.
most_common(hours) ==
    LET seen == {hours[i] : i \in 1..Len(hours)}
        top  == {h \in seen : \A g \in seen : CountOf(hours, g) <= CountOf(hours, h)}
    IN  CHOOSE h \in top : \A g \in top : FirstIndex(hours, h) <= FirstIndex(hours, g)

MsgNotEnough == 
    <<"N","o","t"," ","e","n","o","u","g","h"," ","d","a","t","a"," ",
      "t","o"," ","p","r","e","d","i","c","t"," ","p","e","a","k"," ",
      "h","o","u","r","s"," ","y","e","t",".">>
MsgInsufficient == 
    <<"I","n","s","u","f","f","i","c","i","e","n","t"," ","d","a","i",
      "l","y"," ","d","a","t","a",".">>
MsgPeak == <<"P","e","a","k"," ","t","i","m","e"," ","i","s"," ">>
MsgMidnight == 
    <<"P","e","a","k"," ","t","i","m","e"," ","i","s"," ","M","i","d",
      "n","i","g","h","t",".">>
MsgNoon == 
    <<"P","e","a","k"," ","t","i","m","e"," ","i","s"," ","1","2"," ",
      "P","M"," ","(","N","o","o","n",")",".">>
MsgAM == <<" ","A","M",".">>
MsgPM == <<" ","P","M",".">>
MsgNoHistory == 
    <<"N","o"," ","a","t","t","e","n","d","a","n","c","e"," ","h","i",
      "s","t","o","r","y",".">>
MsgHigh == 
    <<"H","i","g","h"," ","R","i","s","k"," ","(","A","b","s","e","n",
      "t"," ","3","+"," ","w","e","e","k","s",")">>
MsgMedium == 
    <<"M","e","d","i","u","m"," ","R","i","s","k"," ","(","A","b","s",
      "e","n","t"," ","2"," ","w","e","e","k","s",")">>
MsgLow == 
    <<"L","o","w"," ","R","i","s","k"," ","(","A","c","t","i","v","e",
      ")">>

\* Mutant: rows that do not parse are not told apart from an empty table.
PeakOf_NoSkip(data) ==
    IF data = <<>> \/ \E i \in 1..Len(data) : strptime(data[i][2]) = None
    THEN MsgNotEnough
    ELSE LET h == most_common(HoursOf(data))
         IN  IF h = 0 THEN MsgMidnight
             ELSE IF h = 12 THEN MsgNoon
             ELSE IF h < 12 THEN MsgPeak \o Digits(h) \o MsgAM
             ELSE MsgPeak \o Digits(h - 12) \o MsgPM

\* The body of predict_peak_hours for the rows data.
PeakOf(data) ==
    IF data = <<>> THEN MsgNotEnough
    ELSE LET hours == HoursOf(data)
         IN  IF hours = <<>> THEN MsgInsufficient
             ELSE LET h == most_common(hours)
                  IN  IF h = 0 THEN MsgMidnight
                      ELSE IF h = 12 THEN MsgNoon
                      ELSE IF h < 12 THEN MsgPeak \o Digits(h) \o MsgAM
                      ELSE MsgPeak \o Digits(h - 12) \o MsgPM

\* GymAI.predict_peak_hours
predict_peak_hours == PeakOf(get_all_attendance_data)

\* datetime.datetime.now(): the local reading of the clock, tz hours from UTC.
datetime_now ==
    LET utc == Moment(now.utc)
    IN  [days |-> utc.days, seconds |-> utc.seconds + now.tz * 3600]

\* The parsed timestamps of the rows of exactly this member_id.
VisitsOf(data, member_id) ==
    {strptime(data[i][2]) : i \in {j \in 1..Len(data) : data[j][1] = member_id}} \ {None}

\* GymAI.get_churn_risk
get_churn_risk(member_id) ==
    LET visits == VisitsOf(get_all_attendance_data, member_id)
    IN  IF visits = {} THEN MsgNoHistory
        ELSE LET last_visit == CHOOSE v \in visits : \A w \in visits : ~Later(w, v)
                 days_since == DaysBetween(datetime_now, Moment(last_visit))
             IN  IF days_since > 21 THEN MsgHigh
                 ELSE IF days_since > 14 THEN MsgMedium
                 ELSE MsgLow

\* Clock readings (UTC) at which something happens, in order of time.
Instants ==
    << [year |-> 2024, month |-> 2, day |-> 8, hour |-> 9, minute |-> 0, second |-> 0],
       [year |-> 2024, month |-> 2, day |-> 8, hour |-> 18, minute |-> 0, second |-> 0],
       [year |-> 2024, month |-> 2, day |-> 24, hour |-> 0, minute |-> 0, second |-> 0],
       [year |-> 2024, month |-> 3, day |-> 1, hour |-> 12, minute |-> 0, second |-> 0] >>

\* Hours between local time and UTC where the program runs.
Zones == {0 - 8, 0, 6}

\* Ids checked in, and asked of get_churn_risk.
AttendIds == {<<"A","1">>, <<"a","1">>}

\* Timestamps of rows written by other programs: a day that does not exist,
\* and another format.
ForeignTimestamps == {
    <<"2","0","2","4","-","0","2","-","3","0"," ","1","0",":","0","0",
      ":","0","0">>, 
    <<"0","8","/","0","2","/","2","0","2","4"," ","1","8",":","0","0">>}

\* mark_attendance: one row with the table's default timestamp.
mark_attendance(member_id) ==
    /\ now # None
    /\ Len(attendance) < MaxEvents
    /\ attendance' = Append(attendance, <<member_id, CURRENT_TIMESTAMP(now.utc)>>)
    /\ UNCHANGED <<storeVars, member, calc, now, pool>>

\* A row written into the table by another program.
ForeignRow(member_id, text) ==
    /\ now # None
    /\ Len(attendance) < MaxEvents
    /\ attendance' = Append(attendance, <<member_id, text>>)
    /\ UNCHANGED <<storeVars, member, calc, now, pool>>

\* Time passes to a later instant.
Pass(k) ==
    /\ now # None
    /\ Later(Instants[k], now.utc)
    /\ now' = [now EXCEPT !.utc = Instants[k]]
    /\ UNCHANGED <<storeVars, member, calc, attendance, pool>>

-----------------------------------------------------------------------------
(* SaveWorkers on the thread pool: workers/save_worker.py.  A worker is    *)
(* queued, has resolved its target, has made the target's folder, or is    *)
(* done; save_new_member takes no lock between these steps.                *)

\* Number of saves started.
MaxWriters == 3

\* Largest number of threads of the pool.
MaxThreads == 2

\* The workers inside save_new_member.
Running == {i \in DOMAIN pool.workers : pool.workers[i].pc \in {"resolved", "made"}}

\* Mutant: the pool starts a queued worker whatever is running.
HasFreeThread_Unlimited == TRUE

\* The pool runs at most maxThreadCount workers at a time.
HasFreeThread == Cardinality(Running) < pool.maxThreadCount

\* UserDashboard.do_save up to self.pool.start(w).
StartSave(form, jd) ==
    /\ Len(pool.workers) < MaxWriters
    /\ form.id # <<>> /\ form.name # <<>>
    /\ pool' = [pool EXCEPT !.workers =
                    Append(@, [member |-> StaffMember(form, jd), pc |-> "queued",
                               save_path |-> None])]
    /\ UNCHANGED <<storeVars, member, calc, attendance, now>>

\* AdminDashboard.on_save up to self.pool.start(w): the status is read and
\* the Member built on the interactive thread; the worker writes it later.
StartFormSave(form, jd) ==
    /\ Len(pool.workers) < MaxWriters
    /\ form.id # <<>> /\ form.name # <<>>
    /\ pool' = [pool EXCEPT !.workers =
                    Append(@, [member |-> AdminMember(form, jd), pc |-> "queued",
                               save_path |-> None])]
    /\ UNCHANGED <<storeVars, member, calc, attendance, now>>

\* save_new_member up to the choice of save_path: the id folder is made,
\* its documents are listed and its subfolders counted.
Resolve(i) ==
    /\ pool.workers[i].pc = "queued"
    /\ HasFreeThread
    /\ LET m      == pool.workers[i].member
           target == SavePath(m)
       IN  /\ dirs' = dirs \cup {BaseOf(m)}
           /\ pool' = [pool EXCEPT !.workers[i].save_path = target,
                                   !.workers[i].pc =
                                       IF target = BaseOf(m) THEN "made" ELSE "resolved"]
    /\ UNCHANGED <<files, log, clock, faults, member, calc, attendance, now>>

\* re_dir.mkdir(parents=True, exist_ok=True)
MakeDir(i) ==
    /\ pool.workers[i].pc = "resolved"
    /\ dirs' = dirs \cup {pool.workers[i].save_path}
    /\ pool' = [pool EXCEPT !.workers[i].pc = "made"]
    /\ UNCHANGED <<files, log, clock, faults, member, calc, attendance, now>>

\* create_member_pdf(save_path, ...) and the monthly log line; SaveWorker.run
\* then emits finished.
Write(i) ==
    /\ pool.workers[i].pc = "made"
    /\ LET m      == pool.workers[i].member
           target == pool.workers[i].save_path
           doc    == [path |-> target, lines |-> create_member_pdf(m),
                      mtime |-> clock + 1, readable |-> TRUE]
           k      == LogKey(m)
       IN  /\ files' = {f \in files : f.path # target} \cup {doc}
           /\ log' = IF k \in DOMAIN log
                     THEN [log EXCEPT ![k] = Append(@, LogEntry(m))]
                     ELSE (k :> <<LogEntry(m)>>) @@ log
           /\ clock' = clock + 1
    /\ pool' = [pool EXCEPT !.workers[i].pc = "done"]
    /\ UNCHANGED <<dirs, faults, member, calc, attendance, now>>

-----------------------------------------------------------------------------
(* The codec on its own: a Member is encoded by one save into an empty     *)
(* store.                                                                  *)

\* Members handed to the codec: texts with and without blanks around them,
\* one- and two-digit numbers.
Members ==
    [id : {<<"A","1">>, <<" ","a","1">>},
     name : {<<"B","o">>, <<"B","o"," ">>, <<" ">>},
     phone : {Phone}, blood : {Blood}, gender : {Male}, cnic : {Cnic},
     day : {5, 31}, month : {1, 12}, year : {2024},
     membership_months : {1, 12},
     package : {Bronze, Gold},
     end_date : {<<"2","0","2","5","-","0","1","-","0","5">>},
     status : {Pending, Active}]

\* save_new_member(member) into the empty store.
EncodeMember ==
    /\ member # None
    /\ files = {}
    /\ save_new_member(member, TRUE)

-----------------------------------------------------------------------------
(* core.utils.add_months on its own.                                       *)

\* Start dates: the first and the last days of every month of a common
\* year, a leap year and the year before a century year that is not leap.
Dates ==
    {d \in [year : {2023, 2024, 2099}, month : 1..12, day : {1, 28, 29, 30, 31}] :
        d.day <= DaysInMonth(d.year, d.month)}

\* add_months(start_date, months), its arguments kept beside the result.
AddMonths(months) ==
    /\ calc # None
    /\ calc' = [start_date |-> calc.start_date, months |-> months,
                result |-> add_months(calc.start_date, months)]
    /\ UNCHANGED <<storeVars, member, attendance, now, pool>>

-----------------------------------------------------------------------------

StoreInit ==
    /\ files = {}
    /\ dirs = {}
    /\ log = <<>>
    /\ clock = 0
    /\ faults = 0

Init ==
    /\ StoreInit
    /\ member = None
    /\ calc = None
    /\ attendance = <<>>
    /\ now = None
    /\ pool = IdlePool

Next ==
    \/ \E form \in Forms, jd \in FormDates : do_save(form, jd)
    \/ \E form \in Forms, jd \in FormDates : on_save(form, jd)
    \/ \E row \in get_pending_members : do_approve(row.id)
    \/ \E row \in get_pending_members : do_reject(row.id)
    \/ \E mid \in OpIds : do_ban(mid)
    \/ \E mid \in OpIds, sd \in RenewDates, n \in RenewMonths : open_renew(mid, sd, n)
    \/ \E mid \in DeleteIds : delete_member(mid)
    \/ \E f \in files : Corrupt(f)

Spec == Init /\ [][Next]_vars

\* The store as the scans meet it: members registered by staff and by the
\* admin, approved and banned, and documents that can no longer be read.
ScanNext ==
    \/ \E form \in Forms, jd \in FormDates : do_save(form, jd)
    \/ \E form \in Forms, jd \in FormDates : on_save(form, jd)
    \/ \E row \in get_pending_members : do_approve(row.id)
    \/ \E mid \in OpIds : do_ban(mid)
    \/ \E f \in files : Corrupt(f)

ScanSpec == Init /\ [][ScanNext]_vars

\* The codec applied to each of the Members.
CodecInit ==
    /\ StoreInit
    /\ member \in Members
    /\ calc = None
    /\ attendance = <<>>
    /\ now = None
    /\ pool = IdlePool

CodecNext == EncodeMember

CodecSpec == CodecInit /\ [][CodecNext]_vars

\* add_months applied to each of the Dates.
CalendarInit ==
    /\ StoreInit
    /\ member = None
    /\ calc \in [start_date : Dates]
    /\ attendance = <<>>
    /\ now = None
    /\ pool = IdlePool

CalendarNext == \E months \in 0..MaxMonths : AddMonths(months)

CalendarSpec == CalendarInit /\ [][CalendarNext]_vars

\* The attendance table filled over time, in a place tz hours from UTC.
AttendanceInit ==
    /\ StoreInit
    /\ member = None
    /\ calc = None
    /\ attendance = <<>>
    /\ now \in [utc : {Instants[1]}, tz : Zones]
    /\ pool = IdlePool

AttendanceNext ==
    \/ \E member_id \in AttendIds : mark_attendance(member_id)
    \/ \E text \in ForeignTimestamps : ForeignRow(<<"A","1">>, text)
    \/ \E k \in DOMAIN Instants : Pass(k)

AttendanceSpec == AttendanceInit /\ [][AttendanceNext]_vars

\* Registrations saved through a thread pool of one or more threads.
PoolInit ==
    /\ StoreInit
    /\ member = None
    /\ calc = None
    /\ attendance = <<>>
    /\ now = None
    /\ pool \in [maxThreadCount : 1..MaxThreads, workers : {<<>>}]

PoolNext ==
    \/ \E form \in Forms, jd \in FormDates : StartSave(form, jd)
    \/ \E i \in DOMAIN pool.workers : Resolve(i)
    \/ \E i \in DOMAIN pool.workers : MakeDir(i)
    \/ \E i \in DOMAIN pool.workers : Write(i)

PoolSpec == PoolInit /\ [][PoolNext]_vars

\* The admin form saved through the thread pool while members are banned
\* from the interactive thread.
FormNext ==
    \/ \E form \in Forms, jd \in FormDates : StartFormSave(form, jd)
    \/ \E i \in DOMAIN pool.workers : Resolve(i)
    \/ \E i \in DOMAIN pool.workers : MakeDir(i)
    \/ \E i \in DOMAIN pool.workers : Write(i)
    \/ \E mid \in OpIds : do_ban(mid)

FormSpec == PoolInit /\ [][FormNext]_vars

\* Largest number of appends to a monthly log that fail.
MaxFaults == 1

\* Members with numbers for ids, registered by staff and worked on by the
\* admin, on a disk where appends to the monthly log may fail.
LogInit ==
    /\ files = {}
    /\ dirs = {}
    /\ log = <<>>
    /\ clock = 0
    /\ faults \in 0..MaxFaults
    /\ member = None
    /\ calc = None
    /\ attendance = <<>>
    /\ now = None
    /\ pool = IdlePool

LogNext ==
    \/ \E form \in NumberForms, jd \in FormDates : do_save(form, jd)
    \/ \E row \in get_pending_members : do_approve(row.id)
    \/ \E row \in get_pending_members : do_reject(row.id)
    \/ \E mid \in NumberIds : do_ban(mid)
    \/ \E mid \in NumberIds, sd \in RenewDates, n \in RenewMonths : open_renew(mid, sd, n)
    \/ \E mid \in NumberIds : delete_member(mid)

LogSpec == LogInit /\ [][LogNext]_vars

-----------------------------------------------------------------------------
(* Properties.                                                             *)

\* The id folder a document lies in or under.
BaseFolder(f) == [f.path EXCEPT !.sub = 0]

Siblings(fs, f) == {g \in fs : BaseFolder(g) = BaseFolder(f)}

\* What a document holds and when it was written.
Content(fs) == {[path |-> f.path, lines |-> f.lines, mtime |-> f.mtime] : f \in fs}

Locations(fs) == {f.path : f \in fs}

\* C1: under sequential execution the j-th save of one id under one join
\* date since the id folder was last empty goes to the id folder itself for
\* j = 1 and to subfolder ReAdmission_{j-1} for j >= 2: the document a step
\* writes lies in the subfolder numbered by the count of documents its id
\* folder already held, and those documents stay.
C1_ReAdmissionNumbering ==
    [][clock' # clock =>
         \A f \in files' :
             f.mtime = clock' =>
                 /\ f.path.sub = Cardinality(Siblings(files, f))
                 /\ f.path \in dirs'
                 /\ Siblings(files, f) \subseteq files']_vars

\* C1 witness: three saves of one id and date lie in id/, id/ReAdmission_1/
\* and id/ReAdmission_2/, in that order of writing.
C1_ThreeSaves ==
    \E f0 \in files, f1 \in files, f2 \in files :
        /\ BaseFolder(f1) = BaseFolder(f0) /\ BaseFolder(f2) = BaseFolder(f0)
        /\ f0.path.sub = 0 /\ f1.path.sub = 1 /\ f2.path.sub = 2
        /\ f0.mtime < f1.mtime /\ f1.mtime < f2.mtime
        /\ ReAdmissionName(f1.path.sub) = <<"R","e","A","d","m","i","s","s","i","o","n","_","1">>
        /\ ReAdmissionName(f2.path.sub) = <<"R","e","A","d","m","i","s","s","i","o","n","_","2">>

\* C2: a written document is never modified or overwritten: every step that
\* writes (a save, Approve, Ban or Renew) adds exactly one document, at a
\* location that held none, and leaves every earlier document's content and
\* modification time as they were; any other step changes no document and
\* removes documents only as the delete of one folder name does.
C2_WriteOnce ==
    [][/\ clock' # clock =>
            /\ Content(files) \subseteq Content(files')
            /\ Cardinality(files') = Cardinality(files) + 1
            /\ Cardinality(Locations(files') \ Locations(files)) = 1
       /\ clock' = clock =>
            \/ Content(files') = Content(files)
            \/ \E name \in UNION {FolderNames(f.path) : f \in files} :
                   Content(files') = {c \in Content(files) : name \notin FolderNames(c.path)}
      ]_vars

\* C2 witness: a status rewrite (BANNED) has been written as the third
\* document of an id folder that keeps its two earlier documents.
C2_BanAddedThird ==
    \E f \in files :
        /\ f.mtime = clock /\ clock = 3
        /\ Get(parse_member_from_pdf(f), "status", <<>>) = BANNED
        /\ Cardinality(Siblings(files, f)) = 3
        /\ {g.mtime : g \in Siblings(files, f)} = {1, 2, 3}

\* The readable documents whose decoded id is id.
DocsOfId(id) ==
    {f \in files : Get(parse_member_from_pdf(f), "id", None) = id}

DecodedIds == {parse_member_from_pdf(f).id : f \in {g \in files : g.readable}}

StatusOf(f) == Get(parse_member_from_pdf(f), "status", <<>>)

Listed(status, id) ==
    \E i \in DOMAIN get_members_by_status(status) :
        get_members_by_status(status)[i].id = id

\* C3 (as claimed): the status listing dedups by recency before it filters:
\* an id that has documents of different statuses is listed under status s
\* if and only if its most recently modified document has status s, letter
\* case ignored.
C3_DedupBeforeFilter ==
    \A s \in StatusQueries : \A id \in DecodedIds :
        Cardinality({StatusOf(f) : f \in DocsOfId(id)}) > 1 =>
            (Listed(s, id) <=> Lower(StatusOf(Newest(DocsOfId(id)))) = Lower(s))

\* C4 (as claimed): after Delete(id), GetLatest(id) returns absent, whatever
\* was saved, approved, banned or renewed before.
C4_DeleteThenAbsent ==
    [][\A mid \in DeleteIds :
          delete_member(mid) => LatestIn(files', mid) = None]_vars

\* The documents GetLatest(id) is to choose from: those whose stem equals
\* the trimmed id, letter case ignored.
StemMatches(id) == {f \in files : Lower(Stem(f)) = Lower(Strip(id))}

\* What a readable document says, read off the lines written and the folder
\* it lies in.
Says(f, r) ==
    /\ r.id = Stem(f)
    /\ r.name = Strip(f.lines[2].text)
    /\ r.gender = Strip(f.lines[5].text)
    /\ r.status = Strip(f.lines[11].text)
    /\ TwoDigits(r.day) = f.path.day
    /\ month_name(r.month) = f.path.month
    /\ Digits(r.year) = f.path.year

\* C5 (as claimed): GetLatest(id) is the decode of the most recently
\* modified document whose stem equals the trimmed id, letter case ignored,
\* and is absent exactly when there is no such document.
C5_AbsentOnlyWhenNoDocument ==
    \A id \in QueryIds :
        IF StemMatches(id) = {} THEN get_member_by_id(id) = None
        ELSE /\ get_member_by_id(id) # None
             /\ \E f \in StemMatches(id) :
                    /\ \A g \in StemMatches(id) : g.mtime <= f.mtime
                    /\ Says(f, get_member_by_id(id))

\* C5 (amended): as claimed, except that GetLatest(id) is absent exactly
\* when there is no such document or the most recently modified one cannot
\* be read.
C5_LatestByStem ==
    \A id \in QueryIds :
        LET got == get_member_by_id(id)
            M == StemMatches(id)
        IN  IF M = {} THEN got = None
            ELSE \E f \in M :
                     /\ \A g \in M : g.mtime <= f.mtime
                     /\ IF f.readable THEN got # None /\ Says(f, got)
                        ELSE got = None

\* C5 witness: an id typed with blanks around it matches documents of two
\* differently-cased stems, and the answer is the newer one's record.
C5_NewestOfTwoStems ==
    \E f \in files, g \in files :
        /\ {f, g} \subseteq StemMatches(<<" ","A","1"," ">>)
        /\ Stem(f) # Stem(g) /\ g.mtime < f.mtime /\ g.readable
        /\ \A h \in StemMatches(<<" ","A","1"," ">>) : h.mtime <= f.mtime
        /\ get_member_by_id(<<" ","A","1"," ">>) # None
        /\ get_member_by_id(<<" ","A","1"," ">>).id = Stem(f)

\* The documents whose stem contains the trimmed, lower-cased query.
ByStem(q) == {f \in files : Contains(Lower(Strip(q)), Lower(Stem(f)))}

\* The readable documents whose written name contains it, letter case
\* ignored.
ByName(q) ==
    {f \in files :
        f.readable /\ Contains(Lower(Strip(q)), Lower(Strip(f.lines[2].text)))}

\* C6: if some document's stem contains the trimmed, lower-cased query, the
\* match list is exactly those documents and no document is decoded to build
\* it; otherwise it is exactly the readable documents whose decoded name
\* contains the query, letter case ignored.
C6_ContentPassOnlyWhenNoStem ==
    \A q \in Queries :
        LET stems == ByStem(q)
        IN  IF stems # {}
            THEN /\ search_members(q).matches = Locations(stems)
                 /\ SearchDecodes(q) = 0
            ELSE search_members(q).matches = Locations(ByName(q))

\* C6 witness: one query matches a stem while another document's name
\* contains it too; another query matches no stem but a name, with an
\* unreadable document present.
C6_BothBranches ==
    /\ \E q \in Queries : ByStem(q) # {} /\ ByName(q) \ ByStem(q) # {}
    /\ \E q \in Queries :
          /\ ByStem(q) = {} /\ ByName(q) # {}
          /\ \E f \in files : ~f.readable
          /\ search_members(q).matches = Locations(ByName(q))

\* The candidates a search result lists.
Candidates(r) == {f \in files : f.path \in r.matches}

\* C7: with candidates, the best record is the decode of the candidate
\* modified last and the result lists every candidate's location; without
\* candidates the match list is empty and there is no best record.
C7_BestIsNewestCandidate ==
    \A q \in Queries :
        LET r == search_members(q)
            stems == ByStem(q)
            C == IF stems # {} THEN stems ELSE ByName(q)
        IN  /\ r.matches = Locations(C)
            /\ IF C = {} THEN "parsed" \notin DOMAIN r
               ELSE /\ "parsed" \in DOMAIN r
                    /\ \E c \in C :
                          /\ \A g \in C : g.mtime <= c.mtime
                          /\ r.parsed = parse_member_from_pdf(c)

\* C7 witness: a name query with two candidates of different ids; the best
\* record is the one written later, although the other's id sorts first.
C7_LaterOfTwoIds ==
    \E q \in Queries : \E c \in ByName(q), g \in ByName(q) :
        /\ ByStem(q) = {}
        /\ Len(Stem(g)) < Len(Stem(c)) /\ g.mtime < c.mtime
        /\ \A h \in ByName(q) : h.mtime <= c.mtime
        /\ search_members(q).parsed.id = Stem(c)
        /\ Cardinality(search_members(q).matches) >= 2

\* Gender of a record as the access check compares it.
GenderKey(g) == Lower(Strip(g))

\* C8: a caller who is not an admin and is bound to gender g receives either
\* access denied with an empty match list, or a result whose best record, if
\* any, has gender g after trimming and lower-casing; a best record of
\* another gender is always denied.
C8_GenderOverlay ==
    \A q \in Queries :
        LET eng == search_members(q)
            best == Get(eng, "parsed", None)
        IN  \A g \in UserGenders :
                LET out == SearchWorker_run(q, FALSE, g)
                IN  /\ IF "access_denied" \in DOMAIN out
                       THEN out.access_denied /\ out.matches = {}
                       ELSE /\ out = eng
                            /\ best # None =>
                                  GenderKey(best.gender) = GenderKey(g)
                    /\ (best # None /\ GenderKey(best.gender) # GenderKey(g))
                           => "access_denied" \in DOMAIN out

\* C8 witness: the best record is of the other gender while a candidate of
\* the caller's gender exists, and the caller is denied.
C8_DeniedDespiteOwnGender ==
    \E q \in Queries : \E g \in UserGenders :
        /\ Get(search_members(q), "parsed", None) # None
        /\ GenderKey(search_members(q).parsed.gender) # GenderKey(g)
        /\ \E f \in Candidates(search_members(q)) :
              f.readable /\ GenderKey(f.lines[5].text) = GenderKey(g)
        /\ SearchWorker_run(q, FALSE, g) = [matches |-> {}, access_denied |-> TRUE]

\* The fields Approve is to carry over.
CarriedFields ==
    {"id", "name", "phone", "blood", "gender", "cnic", "day", "month", "year",
     "membership_months", "package", "end_date"}

\* Ids Approve may be called with.
ApproveIds == OpIds \cup {row.id : row \in get_pending_members}

\* C9: Approve(id) on an id whose latest record is Pending writes one new
\* document whose status is Active and whose other fields equal those of the
\* record it replaced; GetLatest(id) then has status Active.
C9_ApproveCarriesFields ==
    [][\A mid \in ApproveIds :
          (/\ do_approve(mid)
           /\ LatestIn(files, mid) # None
           /\ LatestIn(files, mid).status = Pending)
          => /\ files \subseteq files'
             /\ Cardinality(files' \ files) = 1
             /\ \A f \in files' \ files :
                   /\ f.readable
                   /\ parse_member_from_pdf(f).status = Active
                   /\ \A k \in CarriedFields :
                         parse_member_from_pdf(f)[k] = LatestIn(files, mid)[k]
             /\ LatestIn(files', mid).status = Active]_vars

\* C9 witness: the newest document is Active and repeats, line for line but
\* for the status, the Pending document written just before it.
C9_ApprovedCopy ==
    \E f \in files, g \in files :
        /\ f.mtime = clock /\ g.mtime = clock - 1
        /\ g.readable /\ f.readable
        /\ Stem(f) = Stem(g)
        /\ f.lines[11].text = Active /\ g.lines[11].text = Pending
        /\ f.lines[9].text = Gold
        /\ \A i \in 1..10 : f.lines[i] = g.lines[i]

\* Latest stored status of an id, lower-cased; <<>> when GetLatest is absent.
LatestStatus(fs, id) ==
    IF LatestIn(fs, id) = None THEN <<>> ELSE Lower(LatestIn(fs, id).status)

SaveStep == \E form \in Forms, jd \in FormDates : do_save(form, jd)

FormSaveStep == \E form \in Forms, jd \in FormDates : on_save(form, jd)

ApproveStep == \E row \in get_pending_members : do_approve(row.id)

RejectStep == \E row \in get_pending_members : do_reject(row.id)

BanStep == \E mid \in OpIds : do_ban(mid)

RenewStep ==
    \E mid \in OpIds, sd \in RenewDates, n \in RenewMonths : open_renew(mid, sd, n)

WorkflowStep ==
    SaveStep \/ FormSaveStep \/ ApproveStep \/ RejectStep \/ BanStep \/ RenewStep

KeptFields == {"id", "name", "phone", "blood", "gender", "cnic", "package"}

\* C12: Renew on an id that has a latest record, whatever its status, writes
\* one new document with status Active, the start date as join date, the
\* months and the end date given, and id, name, phone, blood type, gender,
\* national id and package of the latest record; GetLatest(id) then returns
\* that document.
C12_RenewWrites ==
    [][\A mid \in OpIds, sd \in RenewDates, n \in RenewMonths :
          (open_renew(mid, sd, n) /\ LatestIn(files, mid) # None)
          => /\ files \subseteq files'
             /\ Cardinality(files' \ files) = 1
             /\ \A f \in files' \ files :
                   LET new == parse_member_from_pdf(f)
                   IN  /\ f.readable
                       /\ new.status = Active
                       /\ new.day = sd.day /\ new.month = sd.month
                       /\ new.year = sd.year
                       /\ new.membership_months = n
                       /\ new.end_date = DateStr(calculate_end_date(sd, n))
                       /\ \A k \in KeptFields : new[k] = LatestIn(files, mid)[k]
                       /\ LatestIn(files', mid) = new]_vars

\* C12 witness: an id whose latest record was BANNED, with other join date
\* and months, has been renewed: the newest document is Active with the
\* renewal's dates and months.
C12_RenewedBanned ==
    \E f \in files, g \in files :
        /\ Stem(f) = Stem(g)
        /\ g.mtime = clock - 1 /\ f.mtime = clock
        /\ g.lines[11].text = BANNED /\ f.lines[11].text = Active
        /\ g.lines[7].text = <<"3","1","/","0","1","/","2","0","2","4">>
        /\ f.lines[7].text = <<"1","5","/","0","3","/","2","0","2","4">>
        /\ g.lines[8].text # f.lines[8].text
        /\ f.lines[8].text = <<"2"," ","m","o","n","t","h","s">>
        /\ f.lines[10].text = <<"2","0","2","4","-","0","5","-","1","5">>
        /\ f.path.month = <<"M","a","r","c","h">>

\* Fields the codec writes as text, and as numbers.
TextFields ==
    {"id", "name", "phone", "blood", "gender", "cnic", "package", "end_date",
     "status"}

NumberFields == {"day", "month", "year", "membership_months"}

NonEmptyNoColon(v) == v # <<>> /\ \A i \in 1..Len(v) : v[i] # ":"

NoBlanksAround(v) == v[1] # " " /\ v[Len(v)] # " "

\* Decode(Encode(member)) gives back every encoded field.
RoundTrip(f) ==
    \A k \in TextFields \cup NumberFields :
        parse_member_from_pdf(f)[k] = member[k]

\* C13 (as claimed): Decode(Encode(r)) reproduces every encoded field of r
\* for every record whose field values are non-empty and contain no colon.
C13_RoundTripNonEmpty ==
    \A f \in files :
        (member # None /\ \A k \in TextFields : NonEmptyNoColon(member[k]))
            => RoundTrip(f)

\* C13 (amended): Decode(Encode(r)) reproduces every encoded field of r for
\* every record whose field values are non-empty, contain no colon and have
\* no blank at either end.
C13_RoundTripTrimmed ==
    \A f \in files :
        (/\ member # None
         /\ \A k \in TextFields :
               NonEmptyNoColon(member[k]) /\ NoBlanksAround(member[k]))
            => RoundTrip(f)

\* C13 witness: a record of trimmed texts with a one-digit day and two-digit
\* month and months has been encoded, and decodes to itself.
C13_EncodedAndDecoded ==
    \E f \in files :
        /\ member # None
        /\ \A k \in TextFields : NoBlanksAround(member[k])
        /\ member.day = 5 /\ member.month = 12 /\ member.membership_months = 12
        /\ f.lines[7].text = <<"0","5","/","1","2","/","2","0","2","4">>
        /\ RoundTrip(f)

\* Number of days of a month of the calendar.
MonthLength(y, m) ==
    CASE m \in {1, 3, 5, 7, 8, 10, 12} -> 31
      [] m \in {4, 6, 9, 11} -> 30
      [] m = 2 -> IF y % 4 = 0 /\ (y % 100 # 0 \/ y % 400 = 0) THEN 29 ELSE 28

\* C14: add_months(d, n) is the date whose year and month lie exactly n
\* calendar months after d's and whose day is the smaller of d's day and the
\* length of that month; Jan 31 plus one month is Feb 28 in a common year
\* and Feb 29 in a leap year.
C14_AddMonthsClamps ==
    "result" \in DOMAIN calc =>
        LET d == calc.start_date
            n == calc.months
            r == calc.result
        IN  /\ r.month \in 1..12
            /\ (r.year - d.year) * 12 + (r.month - d.month) = n
            /\ r.day \in {d.day, MonthLength(r.year, r.month)}
            /\ r.day <= d.day /\ r.day <= MonthLength(r.year, r.month)
            /\ (d = [year |-> 2023, month |-> 1, day |-> 31] /\ n = 1)
                   => r = [year |-> 2023, month |-> 2, day |-> 28]
            /\ (d = [year |-> 2024, month |-> 1, day |-> 31] /\ n = 1)
                   => r = [year |-> 2024, month |-> 2, day |-> 29]

\* C14 witness: 31 December 2099 plus two months has been computed: the
\* year rolls over and the day is clamped to 28 February 2100.
C14_ClampedAcrossYears ==
    /\ "result" \in DOMAIN calc
    /\ calc.start_date = [year |-> 2099, month |-> 12, day |-> 31]
    /\ calc.months = 2
    /\ calc.result = [year |-> 2100, month |-> 2, day |-> 28]

\* The decoded records of the readable stored documents.
StoredRecords == {parse_member_from_pdf(f) : f \in {g \in files : g.readable}}

\* C15: every stored record's end date is the text of add_months(join date,
\* membership months), after any sequence of registration saves, approvals,
\* bans and renewals.
C15_EndDateIsJoinPlusMonths ==
    \A d \in StoredRecords :
        /\ {"end_date", "membership_months"} \subseteq DOMAIN d
        /\ d.end_date =
               DateStr(add_months([year |-> d.year, month |-> d.month, day |-> d.day],
                                  d.membership_months))

\* C15 witness: a registration whose end date was clamped (31 January plus
\* one month), a ban of it and a renewal from another start date are stored.
C15_SavedBannedRenewed ==
    /\ \E d \in StoredRecords :
           /\ d.status = Pending
           /\ d.end_date = <<"2","0","2","4","-","0","2","-","2","9">>
    /\ \E d \in StoredRecords : d.status = BANNED
    /\ \E d \in StoredRecords :
           /\ d.status = Active
           /\ d.month = 3 /\ d.day = 15 /\ d.membership_months = 2
           /\ d.end_date = <<"2","0","2","4","-","0","5","-","1","5">>

\* The rows whose timestamp was written by the table's default, and the hour
\* read off such a timestamp's twelfth and thirteenth characters.
StampedRows == {i \in 1..Len(attendance) : attendance[i][2] \notin ForeignTimestamps}

HourAt(i) == ParseInt(SubSeq(attendance[i][2], 12, 13))

HourCount(h) == Cardinality({i \in StampedRows : HourAt(i) = h})

PeakLabel(h) ==
    CASE h = 0 -> MsgMidnight
      [] h = 12 -> MsgNoon
      [] h \in 1..11 -> MsgPeak \o Digits(h) \o MsgAM
      [] h \in 13..23 -> MsgPeak \o Digits(h - 12) \o MsgPM

\* C16: with at least one parsable timestamp in the log, predict_peak_hours
\* returns the label of an hour no other hour outnumbers: Midnight for 0,
\* Noon for 12, "h AM" for 1..11 and "h-12 PM" for 13..23; hours 18, 18, 18
\* and 9 give "6 PM".
C16_PeakIsMaximalHour ==
    /\ StampedRows # {} =>
           \E h \in 0..23 :
               /\ HourCount(h) > 0
               /\ \A g \in 0..23 : HourCount(g) <= HourCount(h)
               /\ predict_peak_hours = PeakLabel(h)
    /\ (HourCount(18) = 3 /\ HourCount(9) = 1 /\ Cardinality(StampedRows) = 4) =>
           predict_peak_hours =
               <<"P","e","a","k"," ","t","i","m","e"," ","i","s"," ","6"," ","P","M",".">>

\* C16 witness: one check-in at 9 and three at 18 are in the log and the
\* answer is "6 PM".
C16_ThreeAtSixOneAtNine ==
    /\ Len(attendance) = 4
    /\ HourCount(18) = 3 /\ HourCount(9) = 1
    /\ predict_peak_hours = MsgPeak \o <<"6">> \o MsgPM

\* C17: predict_peak_hours answers "not enough data" for an empty log and
\* "insufficient data" for a log in which no timestamp parses, and rows whose
\* timestamp does not parse change neither the hours counted nor the answer
\* the other rows give.
C17_UnparsableSkipped ==
    LET stamped == SelectSeq(attendance, LAMBDA row : row[2] \notin ForeignTimestamps)
    IN  /\ attendance = <<>> => predict_peak_hours = MsgNotEnough
        /\ (attendance # <<>> /\ StampedRows = {}) => predict_peak_hours = MsgInsufficient
        /\ HoursOf(attendance) = [i \in 1..Len(stamped) |-> ParseInt(SubSeq(stamped[i][2], 12, 13))]
        /\ StampedRows # {} => predict_peak_hours = PeakOf(stamped)

\* C17 witness: the log holds rows and none of their timestamps parses.
C17_OnlyForeignRows ==
    /\ Len(attendance) >= 2
    /\ StampedRows = {}
    /\ {attendance[i][2] : i \in 1..Len(attendance)} = ForeignTimestamps
    /\ predict_peak_hours = MsgInsufficient

\* Hours from the start of 2024 to a point in time of that year.
HoursInto2024(dt) ==
    LET before == <<0, 31, 60, 91, 121, 152, 182, 213, 244, 274, 305, 335>>
    IN  (before[dt.month] + dt.day - 1) * 24 + dt.hour

\* The instants at which the id checked in.
CheckIns(id) ==
    {k \in DOMAIN Instants :
        \E i \in 1..Len(attendance) :
            attendance[i] = <<id, CURRENT_TIMESTAMP(Instants[k])>>}

\* C18: get_churn_risk(id) goes by the whole days elapsed since the latest
\* check-in of exactly that id: at most 14 Low, 15 to 21 Medium, more than 21
\* High, and the no-history answer when the id has no row that parses.
C18_ChurnByElapsedDays ==
    \A id \in AttendIds :
        LET ks == CheckIns(id)
        IN  IF ks = {} THEN get_churn_risk(id) = MsgNoHistory
            ELSE LET last == CHOOSE k \in ks : \A j \in ks : j <= k
                     days == (HoursInto2024(now.utc) - HoursInto2024(Instants[last])) \div 24
                 IN  get_churn_risk(id) =
                         IF days <= 14 THEN MsgLow
                         ELSE IF days <= 21 THEN MsgMedium
                         ELSE MsgHigh

\* The saves that have finished, and whether fewer documents are stored
\* than saves were performed.
Finished == {i \in DOMAIN pool.workers : pool.workers[i].pc = "done"}

LostWrite == Cardinality(files) < Cardinality(Finished)

\* C19: fewer documents than finished saves are found only when the pool
\* runs two or more writers at a time, and then two finished saves of the
\* same id and join date resolved to the same target; saves run one after
\* the other leave one document each.
C19_LostWriteNeedsTwoWriters ==
    /\ pool.maxThreadCount = 1 => Cardinality(files) = Cardinality(Finished)
    /\ LostWrite =>
           /\ pool.maxThreadCount >= 2
           /\ \E i, j \in Finished :
                  /\ i # j
                  /\ pool.workers[i].save_path = pool.workers[j].save_path
                  /\ pool.workers[i].member.id = pool.workers[j].member.id
                  /\ BaseOf(pool.workers[i].member) = BaseOf(pool.workers[j].member)

\* C19 witness: two writers on two threads have both finished and one
\* document is stored.
C19_TwoSavesOneDocument ==
    /\ pool.maxThreadCount = 2
    /\ Cardinality(Finished) = 2
    /\ Cardinality(files) = 1

\* C20: an id or query without a matching document is answered by absence
\* and never by an error: get_member_by_id returns None, search_members an
\* empty match list, and update_member_status and renew_membership do not
\* raise.
C20_NotFoundNeverRaised ==
    /\ \A id \in QueryIds :
           StemMatches(id) = {} =>
               /\ get_member_by_id(id) = None
               /\ ~update_member_status_raises(id)
               /\ ~renew_membership_raises(id)
    /\ \A q \in Queries :
           (ByStem(q) = {} /\ ByName(q) = {}) => search_members(q).matches = {}

\* The documents that can be read.
Readable == {f \in files : f.readable}

\* C21: documents that cannot be read abort no scan: get_pending_members
\* and get_members_by_status give what they would give on the store without
\* those documents, and search_members gives a result with a match list.
C21_UnreadableSkipped ==
    /\ get_pending_members = PendingIn(Readable)
    /\ \A s \in StatusQueries : get_members_by_status(s) = StatusListIn(Readable, s)
    /\ \A q \in Queries : "matches" \in DOMAIN search_members(q)

\* C21 witness: a document that cannot be read lies beside a readable
\* Pending one, and both listings have entries.
C21_ListedBesideUnreadable ==
    /\ Readable # files
    /\ get_pending_members # {}
    /\ get_members_by_status(<<"p","e","n","d","i","n","g">>) # <<>>

\* The number of lines in all monthly logs.
RECURSIVE LinesIn(_)
LinesIn(keys) ==
    IF keys = {} THEN 0
    ELSE LET k == CHOOSE j \in keys : TRUE
         IN  Len(log[k]) + LinesIn(keys \ {k})

\* C22: a save whose append to the monthly log fails still succeeds: the
\* document is written at the location computed for it, every earlier
\* document stays, and the step completes with the log as it was.
C22_SaveSurvivesLogFailure ==
    [][faults' < faults =>
          /\ log' = log
          /\ clock' = clock + 1
          /\ files \subseteq files'
          /\ \E f \in files' :
                 /\ f \notin files
                 /\ f.readable /\ MTime(f) = clock'
                 /\ f.path = SavePath(parse_member_from_pdf(f))
      ]_vars

\* C22 witness: two saves have been made, one of them without its log line.
C22_DocumentWithoutLogLine ==
    /\ faults = 0
    /\ clock = 2 /\ Cardinality(files) = 2
    /\ LinesIn(DOMAIN log) = 1

\* The monthly log line that belongs to a document, read off the lines
\* written in it.
WrittenLine(f) ==
    LET date == SplitOn(f.lines[7].text, "/")
    IN  [id |-> f.lines[1].text, name |-> f.lines[2].text, day |-> date[1],
         month |-> date[2], year |-> date[3], status |-> f.lines[11].text]

\* C23: the monthly logs are append-only with one line per save: a step that
\* writes a document appends that document's line to the log of its join
\* year and month and changes no other log, and every other step (Delete and
\* Reject among them) leaves all logs as they were.
C23_OneLinePerSave ==
    [][/\ clock' # clock =>
            \E f \in files' :
                /\ MTime(f) = clock'
                /\ LET k == <<f.path.year, f.path.month>>
                   IN  log' = IF k \in DOMAIN log
                              THEN [log EXCEPT ![k] = Append(@, WrittenLine(f))]
                              ELSE (k :> <<WrittenLine(f)>>) @@ log
       /\ clock' = clock => log' = log
      ]_vars

\* C24: Delete(id) removes the documents under folders named exactly id and
\* nothing else: every document of another id is still there afterwards.
C24_DeleteOnlyThatId ==
    [][\A mid \in NumberIds :
          delete_member(mid) =>
              /\ \A f \in files : Stem(f) # mid => f \in files'
              /\ \A f \in files' : f \in files /\ mid \notin FolderNames(f.path)
      ]_vars

\* C25: after an approval that succeeded for a row of the pending list, the
\* pending list has no entry for that row's id.
C25_ApprovedLeavesQueue ==
    [][\A row \in get_pending_members :
          (do_approve(row.id) /\ clock' # clock) =>
              \A r \in PendingIn(files') : r.id # row.id
      ]_vars

-----------------------------------------------------------------------------
(* Search: exact stems, and what a restricted caller is handed.            *)

\* The documents whose stem equals the normalised query.
ExactStem(query) == {f \in files : Lower(Stem(f)) = NormalQuery(query)}

\* The documents whose stem contains the normalised query.
StemContains(query) ==
    {f \in files : Contains(NormalQuery(query), Lower(Stem(f)))}

\* C26 as stated: when a document's stem equals the query, the best record is
\* the decode of the newest document with that stem, whatever other documents
\* contain the query.
C26_ExactStemIsBest ==
    \A query \in Queries :
        LET exact == ExactStem(query)
        IN  exact # {} =>
                Get(search_members(query), "parsed", None)
                    = parse_member_from_pdf(Newest(exact))

\* C26: when a document's stem equals the query, the best record is the decode
\* of the most recently modified document among all documents whose stem
\* contains the query, and the match list holds the locations of all of them.
C26_NewestCandidateIsBest ==
    \A query \in Queries :
        LET exact == ExactStem(query)
            all == StemContains(query)
            result == search_members(query)
        IN  exact # {} =>
                /\ result.matches = {f.path : f \in all}
                /\ \E f \in all :
                      /\ \A g \in all : MTime(g) <= MTime(f)
                      /\ result.parsed = parse_member_from_pdf(f)

\* C26 witness: a document's stem equals the query, and a newer readable
\* document of another id contains it; the best record is the other member.
C26_NewerSubstringWins ==
    \E query \in Queries :
        LET exact == ExactStem(query)
            all == StemContains(query)
        IN  /\ exact # {}
            /\ \E g \in all \ exact :
                  /\ g.readable
                  /\ \A f \in exact : MTime(f) < MTime(g)
                  /\ \A h \in all : MTime(h) <= MTime(g)
                  /\ search_members(query).parsed = parse_member_from_pdf(g)
                  /\ search_members(query).parsed
                         # parse_member_from_pdf(Newest(exact))

\* Gender written in a document, trimmed and lower-cased; <<>> when the
\* document cannot be read.
GenderOf(f) ==
    IF f.readable
    THEN Lower(Strip(Get(parse_member_from_pdf(f), "gender", <<>>)))
    ELSE <<>>

\* C27 as stated: every location in the match list handed to a caller who is
\* not an admin and is bound to gender g is the location of a document of
\* gender g.
C27_OnlyOwnGenderListed ==
    \A query \in Queries : \A g \in UserGenders :
        \A f \in files :
            f.path \in SearchWorker_run(query, FALSE, g).matches
                => GenderOf(f) = Lower(Strip(g))

\* C27: the match list handed to a caller who is not an admin and is bound to
\* gender g is empty when the best record decodes and is of another gender;
\* otherwise it is the list of all candidate locations, whatever the gender
\* of their documents.
C27_AllOrNothing ==
    \A query \in Queries : \A g \in UserGenders :
        LET all == SearchMatches(query)
            out == SearchWorker_run(query, FALSE, g)
            best == IF all = {} THEN None ELSE parse_member_from_pdf(Newest(all))
        IN  IF best # None /\ Lower(Strip(Get(best, "gender", <<>>))) # Lower(Strip(g))
            THEN out.matches = {} /\ Get(out, "access_denied", FALSE) = TRUE
            ELSE out.matches = {f.path : f \in all}

\* C27 witness: a caller bound to a gender is handed a best record of that
\* gender together with the location of a readable document of another one.
C27_OtherGenderLocationListed ==
    \E query \in Queries : \E g \in UserGenders :
        LET out == SearchWorker_run(query, FALSE, g)
        IN  /\ Get(out, "parsed", None) # None
            /\ Lower(Strip(Get(out.parsed, "gender", <<>>))) = Lower(Strip(g))
            /\ \E f \in files :
                  /\ f.readable
                  /\ f.path \in out.matches
                  /\ GenderOf(f) # Lower(Strip(g))

-----------------------------------------------------------------------------
(* The admin form's save against Ban.                                      *)

\* C28: when the worker of an admin form save writes its document, a member
\* whose latest record is BANNED (the ban finished before the write) still
\* has a latest record with status BANNED.
C28_BanSurvivesEarlierSave ==
    [][\A i \in DOMAIN pool.workers :
          Write(i) =>
              LET id == pool.workers[i].member.id
              IN  LatestStatus(files, id) = Lower(BANNED)
                      => LatestStatus(files', id) = Lower(BANNED)
      ]_vars

-----------------------------------------------------------------------------
(* Status changes asked for an id that has no document.                    *)

\* C29: for an id with no document, update_member_status and renew_membership
\* raise their member-not-found error, and no Approve, Ban or Renew step for
\* that id changes the documents, the folders or the monthly logs.
C29_AbsentIdLeavesStore ==
    [][\A mid \in OpIds :
          StemMatches(mid) = {} =>
              /\ update_member_status_raises(Strip(mid))
              /\ renew_membership_raises(Strip(mid))
              /\ (\/ do_approve(mid)
                  \/ do_ban(mid)
                  \/ \E sd \in RenewDates, n \in RenewMonths : open_renew(mid, sd, n))
                     => UNCHANGED <<files, dirs, log>>
      ]_vars

\* C29 witness: documents, folders and log lines exist, the log still names
\* an id whose documents were deleted, and Ban and Renew can be asked for it.
C29_AskedAfterDelete ==
    \E mid \in OpIds :
        /\ StemMatches(mid) = {}
        /\ files # {} /\ dirs # {}
        /\ \E k \in DOMAIN log : \E j \in DOMAIN log[k] :
              Lower(log[k][j].id) = Lower(mid)
        /\ update_member_status_raises(Strip(mid))
        /\ ENABLED do_ban(mid)
        /\ ENABLED open_renew(mid, D2, 2)

-----------------------------------------------------------------------------
(* The status Expired.                                                     *)

\* Status line of a document as written, trimmed and lower-cased.
WrittenStatus(f) == Lower(Strip(f.lines[11].text))

\* C30: no step writes a document whose status is Expired, readable or not,
\* and after every step the list of Expired members is empty ("No members
\* found with status").
C30_NothingExpired ==
    [][/\ \A f \in files' \ files : WrittenStatus(f) # Lower(Expired)
       /\ StatusListIn(files', Expired) = <<>>
      ]_vars

\* C30 witness: documents written by a staff save, an approval and a ban are
\* stored, the Active and Pending lists are not empty, and the Expired list
\* is.
C30_PendingActiveBannedStored ==
    /\ {Lower(Pending), Lower(Active), Lower(BANNED)}
           \subseteq {WrittenStatus(f) : f \in files}
    /\ get_members_by_status(Active) # <<>>
    /\ get_members_by_status(Pending) # <<>>
    /\ get_members_by_status(Expired) = <<>>

====
